---- MODULE Spec2Model ----
(***************************************************************************)
(* A model of the sublime-p4 plugin (src/p4.py): the .p4config parser, the *)
(* upward search for .p4config, the p4 command executor and the command    *)
(* handlers built on them.                                                 *)
(*                                                                         *)
(* Text is a sequence of one-character strings, bytes are a sequence of    *)
(* numbers.  A Python value that may be None, bytes or str is a record     *)
(* [t |-> "None" | "bytes" | "str", v |-> the characters or bytes].        *)
(* The outcome of a call is a record                                       *)
(*   [exc |-> exception name, k |-> "ok" | "raise" | "hang", log |-> the   *)
(*    observable events the call produced, val |-> the returned value],    *)
(* fields in alphabetical order throughout.                                *)
(***************************************************************************)
EXTENDS Naturals, Sequences, FiniteSets, TLC

VARIABLES
    fs,           \* the .p4config files on disk: directory |-> file text
    cwd,          \* the process's working directory (a directory)
    file_name,    \* sublime.active_window().active_view().file_name()
    settings,     \* P4.sublime-settings
    file_mode,    \* the active file on disk: "missing", "rw" or "ro"
    config_text,  \* the text of the file _read_p4_config_values opens
    pc,           \* position of the running function
    path,         \* _get_p4_config's loop variable
    iters,        \* iterations of _get_p4_config's loop so far
    procs,        \* what the p4 processes of the running handler write
    handler,      \* the handler (or function) that ran last
    ret,          \* its outcome
    log           \* the events it produced, in order

vars == <<fs, cwd, file_name, settings, file_mode, config_text, pc, path,
          iters, procs, handler, ret, log>>

(***************************************************************************)
(* Bounds of the model.                                                    *)
(***************************************************************************)
MaxTextLen == 4    \* longest config file text, in characters
MaxPathLen == 6    \* longest start path, in characters
MaxIters == 8      \* iterations of the search loop that are followed
MaxOut == 2        \* longest stdout / stderr of a process, in bytes

NL == "\n"
SLASH == "/"
TextAlphabet == {"a", "=", " ", NL}
PathAlphabet == {SLASH, "a"}

\* All sequences over S of length at most n.
SeqsUpTo(S, n) == UNION {[1..k -> S] : k \in 0..n}

(***************************************************************************)
(* Python str helpers.                                                     *)
(***************************************************************************)
Whitespace == {" ", NL}

RECURSIVE lstrip(_)
lstrip(s) ==
    IF s # <<>> /\ Head(s) \in Whitespace THEN lstrip(Tail(s)) ELSE s

RECURSIVE rstrip(_)
rstrip(s) ==
    IF s # <<>> /\ s[Len(s)] \in Whitespace
    THEN rstrip(SubSeq(s, 1, Len(s) - 1))
    ELSE s

\* str.strip()
strip(s) == rstrip(lstrip(s))

\* The index of the first c in s, 0 when there is none.
RECURSIVE IndexFrom(_, _, _)
IndexFrom(s, c, i) ==
    IF i > Len(s) THEN 0
    ELSE IF s[i] = c THEN i
    ELSE IndexFrom(s, c, i + 1)

IndexOf(s, c) == IndexFrom(s, c, 1)

\* The index of the last c in s, 0 when there is none (str.rfind(c) + 1).
RECURSIVE LastIndexOf(_, _)
LastIndexOf(s, c) ==
    IF s = <<>> THEN 0
    ELSE IF s[Len(s)] = c THEN Len(s)
    ELSE LastIndexOf(SubSeq(s, 1, Len(s) - 1), c)

\* str.split(sep) for a one-character separator: every occurrence splits.
RECURSIVE split(_, _)
split(s, sep) ==
    LET i == IndexOf(s, sep) IN
    IF i = 0 THEN <<s>>
    ELSE <<SubSeq(s, 1, i - 1)>> \o split(SubSeq(s, i + 1, Len(s)), sep)

\* Iterating a text file: each line keeps its newline, the last may lack one.
RECURSIVE FileLines(_)
FileLines(text) ==
    LET i == IndexOf(text, NL) IN
    IF text = <<>> THEN <<>>
    ELSE IF i = 0 THEN <<text>>
    ELSE <<SubSeq(text, 1, i)>> \o FileLines(SubSeq(text, i + 1, Len(text)))

\* s.startswith(prefix)
startswith(s, prefix) ==
    /\ Len(prefix) <= Len(s)
    /\ SubSeq(s, 1, Len(prefix)) = prefix

\* dict[k] = v
DictPut(d, k, v) == [x \in DOMAIN d \cup {k} |-> IF x = k THEN v ELSE d[x]]

\* dict.update(other)
DictUpdate(d, other) ==
    [x \in DOMAIN d \cup DOMAIN other |->
        IF x \in DOMAIN other THEN other[x] ELSE d[x]]

EmptyDict == <<>>

(***************************************************************************)
(* Outcomes of calls.                                                      *)
(***************************************************************************)
Ok(val, events) == [exc |-> "", k |-> "ok", log |-> events, val |-> val]
Raise(exc, events) == [exc |-> exc, k |-> "raise", log |-> events, val |-> <<>>]
Hang(events) == [exc |-> "", k |-> "hang", log |-> events, val |-> <<>>]
NotRun == [exc |-> "", k |-> "none", log |-> <<>>, val |-> <<>>]

None == [t |-> "None", v |-> <<>>]
Str(s) == [t |-> "str", v |-> s]
Bytes(b) == [t |-> "bytes", v |-> b]
Dict(d) == [t |-> "dict", v |-> d]

\* Python truthiness of None, bytes, str and dict values.
Truthy(x) == x.t # "None" /\ x.v # <<>>

(***************************************************************************)
(* _read_p4_config_values: the body of the for loop, over the lines left.  *)
(***************************************************************************)
\* line.split('=')
SplitLine(line) == split(line, "=")

RECURSIVE ReadLines(_, _)
ReadLines(lines, result) ==
    IF lines = <<>> THEN Ok(Dict(result), <<>>)
    ELSE LET parts == SplitLine(Head(lines)) IN
         IF Len(parts) # 2 THEN Raise("ValueError", <<>>)
         ELSE ReadLines(Tail(lines),
                        DictPut(result, strip(parts[1]), strip(parts[2])))

\* _read_p4_config_values(config_file_path), given the file's text.
_read_p4_config_values(text) == ReadLines(FileLines(text), EmptyDict)

(***************************************************************************)
(* The parser alone: the file text is drawn in Init, ReadConfig parses it. *)
(***************************************************************************)
ConfigTextsAll == SeqsUpTo(TextAlphabet, MaxTextLen)

InitParse ==
    /\ fs = <<>>
    /\ cwd = <<>>
    /\ file_name = None
    /\ settings = <<>>
    /\ file_mode = "missing"
    /\ config_text \in ConfigTextsAll
    /\ pc = "start"
    /\ path = <<>>
    /\ iters = 0
    /\ procs = <<>>
    /\ handler = "_read_p4_config_values"
    /\ ret = NotRun
    /\ log = <<>>

ReadConfig ==
    /\ pc = "start"
    /\ handler = "_read_p4_config_values"
    /\ ret' = _read_p4_config_values(config_text)
    /\ pc' = "done"
    /\ UNCHANGED <<fs, cwd, file_name, settings, file_mode, config_text, path,
                   iters, procs, handler, log>>

NextParse == ReadConfig

SpecParse == InitParse /\ [][NextParse]_vars

(***************************************************************************)
(* C2.  What the claim says the parser yields.                             *)
(***************************************************************************)
\* A line without its line terminator.
LineBody(line) ==
    IF line # <<>> /\ line[Len(line)] = NL
    THEN SubSeq(line, 1, Len(line) - 1)
    ELSE line

NonEmptyLines(text) ==
    SelectSeq(FileLines(text), LAMBDA l : LineBody(l) # <<>>)

\* Every non-empty line holds at least one '='.
WellFormedText(text) ==
    \A i \in 1..Len(NonEmptyLines(text)) : IndexOf(NonEmptyLines(text)[i], "=") # 0

RECURSIVE ClaimedMap(_, _)
ClaimedMap(lines, result) ==
    IF lines = <<>> THEN result
    ELSE LET i == IndexOf(Head(lines), "=")
             l == Head(lines)
         IN ClaimedMap(Tail(lines),
                       DictPut(result, strip(SubSeq(l, 1, i - 1)),
                               strip(SubSeq(l, i + 1, Len(l)))))

\* C2: for every config file whose non-empty lines each hold an '=', parsing
\* succeeds and maps the trimmed text before the first '=' of each non-empty
\* line to the trimmed text after it; empty lines are ignored.
C2_ParseFirstEquals ==
    (pc = "done" /\ handler = "_read_p4_config_values"
       /\ WellFormedText(config_text))
    => /\ ret.k = "ok"
       /\ ret.val.v = ClaimedMap(NonEmptyLines(config_text), EmptyDict)

(***************************************************************************)
(* os.path and the file system.  A directory is the sequence of its        *)
(* components below the root; fs maps the directories that hold a          *)
(* .p4config file to the file's text.                                      *)
(***************************************************************************)
P4CONFIG == <<".p4config">>

\* head.rstrip('/')
RECURSIVE RStripSlash(_)
RStripSlash(s) ==
    IF s # <<>> /\ s[Len(s)] = SLASH
    THEN RStripSlash(SubSeq(s, 1, Len(s) - 1))
    ELSE s

\* os.path.dirname(p) (posixpath): up to the last '/', and without trailing
\* slashes unless that leaves only slashes.
dirname(p) ==
    LET head == SubSeq(p, 1, LastIndexOf(p, SLASH)) IN
    IF head # <<>> /\ (\E i \in 1..Len(head) : head[i] # SLASH)
    THEN RStripSlash(head)
    ELSE head

\* os.path.join(a, b) for a relative b
join(a, b) ==
    IF a = <<>> \/ a[Len(a)] = SLASH THEN a \o b ELSE a \o <<SLASH>> \o b

\* The components of a path: the non-empty pieces between slashes.
Components(p) == SelectSeq(split(p, SLASH), LAMBDA c : c # <<>>)

\* The directory entry a path names, as the kernel resolves it.
Resolve(p) ==
    IF p # <<>> /\ p[1] = SLASH THEN Components(p) ELSE cwd \o Components(p)

\* os.path.isfile(f): only .p4config files are on the modelled disk.
isfile(f) ==
    LET full == Resolve(f) IN
    /\ full # <<>>
    /\ full[Len(full)] = P4CONFIG
    /\ SubSeq(full, 1, Len(full) - 1) \in DOMAIN fs

\* open(f).read() of a .p4config file that exists
ReadFile(f) == LET full == Resolve(f) IN fs[SubSeq(full, 1, Len(full) - 1)]

(***************************************************************************)
(* _get_p4_config                                                          *)
(***************************************************************************)
\* while path and path != '' and path != '/'
LoopGuard(p) == Truthy(p) /\ p.v # <<>> /\ p.v # <<SLASH>>

ConfigFile(p) == join(p.v, P4CONFIG)

\* A plausible bug: the loop climbs two levels at a time.
ParentPathSkips(p) == Str(dirname(dirname(p.v)))

\* line 71: the parent the loop moves to.
ParentPath(p) == Str(dirname(p.v))

\* The whole search.  The loop never ends when it reaches a path that is its
\* own dirname, passes the guard and holds no .p4config: that is "hang".
RECURSIVE _get_p4_config(_)
_get_p4_config(p) ==
    IF ~LoopGuard(p) THEN Ok(None, <<>>)
    ELSE IF isfile(ConfigFile(p)) THEN _read_p4_config_values(ReadFile(ConfigFile(p)))
    ELSE IF ParentPath(p) = p THEN Hang(<<>>)
    ELSE _get_p4_config(ParentPath(p))

(***************************************************************************)
(* The search alone, one loop iteration per step.                          *)
(***************************************************************************)
DirA == << <<"a">> >>
DirAA == << <<"a">>, <<"a">> >>
DirRoot == <<>>
ConfigDirs == {DirRoot, DirA, DirAA}

TextAA == <<"a", "=", "a">>         \* a=a
TextAEmpty == <<"a", "=", " ">>     \* a=   (an empty value)
TextBad == <<"a">>                  \* no '='
ConfigTexts == {TextAA, TextAEmpty, TextBad}

FileSystems == UNION {[D -> ConfigTexts] : D \in SUBSET ConfigDirs}

StartPaths == {None} \cup {Str(p) : p \in SeqsUpTo(PathAlphabet, MaxPathLen)}

InitResolve ==
    /\ fs \in FileSystems
    /\ cwd \in {DirRoot, DirA}
    /\ file_name \in StartPaths
    /\ settings = <<>>
    /\ file_mode = "missing"
    /\ config_text = <<>>
    /\ pc = "loop"
    /\ path = file_name
    /\ iters = 0
    /\ procs = <<>>
    /\ handler = "_get_p4_config"
    /\ ret = NotRun
    /\ log = <<>>

\* lines 68-70: the config file is there; parse it and return.
LoopFound ==
    /\ pc = "loop"
    /\ handler = "_get_p4_config"
    /\ LoopGuard(path)
    /\ isfile(ConfigFile(path))
    /\ ret' = _read_p4_config_values(ReadFile(ConfigFile(path)))
    /\ pc' = "done"
    /\ UNCHANGED <<fs, cwd, file_name, settings, file_mode, config_text, path,
                   iters, procs, handler, log>>

\* line 71: move to the parent.
LoopUp ==
    /\ pc = "loop"
    /\ handler = "_get_p4_config"
    /\ LoopGuard(path)
    /\ ~isfile(ConfigFile(path))
    /\ iters < MaxIters
    /\ path' = ParentPath(path)
    /\ iters' = iters + 1
    /\ UNCHANGED <<fs, cwd, file_name, settings, file_mode, config_text, pc,
                   procs, handler, ret, log>>

\* line 73: the loop condition fails.
LoopExit ==
    /\ pc = "loop"
    /\ handler = "_get_p4_config"
    /\ ~LoopGuard(path)
    /\ ret' = Ok(None, <<>>)
    /\ pc' = "done"
    /\ UNCHANGED <<fs, cwd, file_name, settings, file_mode, config_text, path,
                   iters, procs, handler, log>>

NextResolve == LoopFound \/ LoopUp \/ LoopExit

SpecResolve == InitResolve /\ [][NextResolve]_vars

\* The stepwise search and the search as one function agree.
ResolveAgrees ==
    (handler = "_get_p4_config" /\ pc = "done") => ret = _get_p4_config(file_name)

(***************************************************************************)
(* C1.  The nearest configured directory on the way up, by components.     *)
(***************************************************************************)
IsAbs(p) == p # <<>> /\ p[1] = SLASH

\* The directory the first n components of p name.
PrefixDir(p, n) ==
    (IF IsAbs(p) THEN <<>> ELSE cwd) \o SubSeq(Components(p), 1, n)

\* The prefixes of p (p itself, as a directory, and its ancestors, nearest
\* last) that hold a .p4config.
Configured(p) ==
    {n \in (IF IsAbs(p) THEN 0 ELSE 1)..Len(Components(p)) :
        PrefixDir(p, n) \in DOMAIN fs}

Nearest(p) == CHOOSE n \in Configured(p) : \A m \in Configured(p) : m <= n

\* C1: when several directories on the way up from the start path hold a
\* .p4config, the search ends with the parse of the nearest one's file, never
\* with that of a more distant one.
C1_NearestConfigWins ==
    (handler = "_get_p4_config" /\ pc = "done" /\ file_name.t = "str"
       /\ Cardinality(Configured(file_name.v)) >= 2)
    => ret = _read_p4_config_values(fs[PrefixDir(file_name.v, Nearest(file_name.v))])

\* The search moved up at least once, passed a nearer configured directory
\* whose file differs from a more distant one's, and returned its mapping.
C1_Witness ==
    /\ handler = "_get_p4_config"
    /\ pc = "done"
    /\ file_name.t = "str"
    /\ iters >= 1
    /\ Cardinality(Configured(file_name.v)) >= 2
    /\ ret.k = "ok"
    /\ ret.val.t = "dict"
    /\ \E m \in Configured(file_name.v) :
          /\ m < Nearest(file_name.v)
          /\ _read_p4_config_values(fs[PrefixDir(file_name.v, m)]) # ret

(***************************************************************************)
(* C10.                                                                    *)
(***************************************************************************)
\* C10: every iteration of the search loop strictly shortens the path (so
\* the loop terminates for every start path).
C10_StrictlyShortens ==
    [][(handler = "_get_p4_config" /\ pc = "loop" /\ pc' = "loop")
         => Len(path'.v) < Len(path.v)]_vars

(***************************************************************************)
(* Commands, messages and events.                                          *)
(*   A command or message is [tmpl |-> the format string, arg |-> the      *)
(*   characters substituted into it].                                      *)
(*   An event is [ev |-> "Popen" | "status_message" | "print" |            *)
(*   "run_command" | "show_message" | "show_input_panel", ...].            *)
(***************************************************************************)
Formatted(tmpl, arg) == [arg |-> arg, tmpl |-> tmpl]
Literal(text) == [arg |-> <<>>, tmpl |-> text]

\* template.format(*args, **kwargs) for a template with one replacement
\* field: kwargs maps the names given (positional arguments are named "0",
\* "1", ...) to their values.
Format(tmpl, field, kwargs) ==
    IF field \in DOMAIN kwargs THEN Ok(Formatted(tmpl, kwargs[field]), <<>>)
    ELSE IF field \in {"0", "1"} THEN Raise("IndexError", <<>>)
    ELSE Raise("KeyError", <<>>)

EvPopen(cmd, folder, env) ==
    [cmd |-> cmd, cwd |-> folder, env |-> env, ev |-> "Popen"]
EvStatus(msg) == [ev |-> "status_message", msg |-> msg, pre |-> "P4 [warning]: "]
EvPrintWarning(msg) == [ev |-> "print", msg |-> msg, pre |-> "P4 [warning]: "]
EvPrint(msg) == [ev |-> "print", msg |-> msg, pre |-> ""]
EvPrintFailed(cmd, err) ==
    [cmd |-> cmd, ev |-> "print", msg |-> Formatted("", err),
     pre |-> "{0} failed: {1}"]
EvRunCommand(name) == [ev |-> "run_command", name |-> name]
EvShowMessage(text) == [ev |-> "show_message", text |-> text]
EvInputPanel == [caption |-> "Enter P4 Password", ev |-> "show_input_panel"]

\* _warn_user(message)
_warn_user(message) ==
    IF settings.p4_warnings_enabled
    THEN <<EvStatus(message), EvPrintWarning(message)>>
    ELSE <<EvPrintWarning(message)>>

(***************************************************************************)
(* Processes.  A process is what it writes and how it exits:               *)
(*   [err |-> bytes, out |-> bytes, rc |-> exit status].                   *)
(***************************************************************************)
Chr(b) == CASE b = 32 -> " "
            [] b = 10 -> NL
            [] b = 47 -> SLASH
            [] b = 97 -> "a"

\* bytes.decode("utf-8") succeeds: the modelled bytes are ASCII or 255.
Decodable(b) == \A i \in 1..Len(b) : b[i] < 128

Decode(b) == [i \in 1..Len(b) |-> Chr(b[i])]

\* os.environ
os_environ == [x \in {<<"a">>, <<"H">>} |-> <<"h">>]

\* lines 87-88: stdout as the executor returns it.
ResultOf(p) ==
    IF p.out = <<>> THEN Ok(Bytes(p.out), <<>>)
    ELSE IF ~Decodable(p.out) THEN Raise("UnicodeDecodeError", <<>>)
    ELSE Ok(Str(strip(Decode(p.out))), <<>>)

\* A plausible bug: the exit status decides whether there is an error.
ErrOfExitStatus(p) ==
    IF p.rc = 0 THEN Ok(None, <<>>)
    ELSE IF ~Decodable(p.err) THEN Raise("UnicodeDecodeError", <<>>)
    ELSE Ok(Str(strip(Decode(p.err))), <<>>)

\* lines 89-92: stderr as the executor returns it.
ErrOf(p) ==
    IF p.err = <<>> THEN Ok(Bytes(p.err), <<>>)
    ELSE IF ~Decodable(p.err) THEN Raise("UnicodeDecodeError", <<>>)
    ELSE IF strip(Decode(p.err)) = <<>> THEN Ok(None, <<>>)
    ELSE Ok(Str(strip(Decode(p.err))), <<>>)

\* lines 93-96: the warning and the log line for an error.
ErrEvents(p4_cmd, err) ==
    (IF err.t = "str" THEN _warn_user(Formatted("{0}", err.v)) ELSE <<>>)
    \o (IF Truthy(err) THEN <<EvPrintFailed(p4_cmd, err.v)>> ELSE <<>>)

\* lines 86-98: after communicate(), with the two streams post-processed.
Communicate(p4_cmd, spawned, result, err) ==
    IF result.k = "raise" THEN Raise(result.exc, spawned)
    ELSE IF err.k = "raise" THEN Raise(err.exc, spawned)
    ELSE Ok([err |-> err.val, result |-> result.val],
            spawned \o ErrEvents(p4_cmd, err.val))

\* lines 82-98: with the outcome of the config search.  dict.update(None)
\* raises TypeError.
RunWithConfig(p4_cmd, p, folder, p4_config) ==
    IF p4_config.k = "hang" THEN Hang(<<>>)
    ELSE IF p4_config.k = "raise" THEN Raise(p4_config.exc, <<>>)
    ELSE IF p4_config.val.t = "None" THEN Raise("TypeError", <<>>)
    ELSE Communicate(p4_cmd,
                     <<EvPopen(p4_cmd, folder,
                               DictUpdate(os_environ, p4_config.val.v))>>,
                     ResultOf(p), ErrOf(p))

\* _run_p4_command(p4_cmd), when the process it spawns behaves as p.
\* os.path.dirname(None) raises TypeError.
_run_p4_command(p4_cmd, p) ==
    IF file_name.t = "None" THEN Raise("TypeError", <<>>)
    ELSE RunWithConfig(p4_cmd, p, dirname(file_name.v), _get_p4_config(file_name))

(***************************************************************************)
(* The executor alone: the environment is drawn in Init, RunCommand runs   *)
(* 'p4 opened' against a process drawn from Processes.                     *)
(***************************************************************************)
ByteAlphabet == {32, 97, 255}

Processes ==
    [err : SeqsUpTo(ByteAlphabet, MaxOut),
     out : SeqsUpTo(ByteAlphabet, MaxOut),
     rc : {0, 1}]

Settings ==
    [p4_auto_add : BOOLEAN, p4_auto_open : BOOLEAN,
     p4_warnings_enabled : BOOLEAN]

FileAA == Str(<<SLASH, "a", SLASH, "a">>)      \* /a/a
FileSlashSlashA == Str(<<SLASH, SLASH, "a">>)  \* //a

CmdOpened == Literal("p4 opened")

\* The disks the plugin is run on: at most one .p4config, in /a or in /.
PluginFileSystems ==
    {f \in FileSystems : DOMAIN f \subseteq {DirA}}
    \cup {[d \in {DirRoot} |-> TextAA]}

\* The active file is a regular file, not a directory that holds a .p4config.
ActiveFileIsAFile ==
    file_name.t = "str" => Resolve(file_name.v) \notin DOMAIN fs

InitRun ==
    /\ fs \in PluginFileSystems
    /\ cwd = DirRoot
    /\ file_name \in {None, FileAA, FileSlashSlashA}
    /\ ActiveFileIsAFile
    /\ settings \in {x \in Settings : ~x.p4_auto_open /\ ~x.p4_auto_add}
    /\ file_mode = "rw"
    /\ config_text = <<>>
    /\ pc = "start"
    /\ path = <<>>
    /\ iters = 0
    /\ procs = <<>>
    /\ handler = "_run_p4_command"
    /\ ret = NotRun
    /\ log = <<>>

RunCommand ==
    /\ pc = "start"
    /\ handler = "_run_p4_command"
    /\ \E p \in Processes :
          LET r == _run_p4_command(CmdOpened, p) IN
          /\ procs' = <<p>>
          /\ ret' = r
          /\ log' = r.log
          /\ pc' = IF r.k = "hang" THEN "hung" ELSE "done"
    /\ UNCHANGED <<fs, cwd, file_name, settings, file_mode, config_text, path,
                   iters, handler>>

NextRun == RunCommand

SpecRun == InitRun /\ [][NextRun]_vars

RunDone == handler = "_run_p4_command" /\ pc = "done"

(***************************************************************************)
(* C3                                                                      *)
(***************************************************************************)
\* C3: when no directory above the active file holds a .p4config, the search
\* returns None and the executor still spawns the command, with the base
\* environment unchanged, and returns an (output, error) pair.
C3_NoConfigStillRuns ==
    (RunDone /\ file_name.t = "str" /\ Configured(file_name.v) = {}
       /\ Decodable(procs[1].out) /\ Decodable(procs[1].err))
    => /\ _get_p4_config(file_name) = Ok(None, <<>>)
       /\ ret.k = "ok"
       /\ \E i \in 1..Len(log) :
             /\ log[i].ev = "Popen"
             /\ log[i].env = os_environ

(***************************************************************************)
(* C6                                                                      *)
(***************************************************************************)
\* What the process wrote to stderr, decoded and trimmed.
StderrText(p) == strip(Decode(p.err))

\* C6: in every completed run the returned error is present (true in a
\* condition, as every caller tests it) exactly when the decoded, trimmed
\* stderr is non-empty; the exit status does not change the result.
C6_ErrorIffStderr ==
    (RunDone /\ ret.k = "ok")
    => /\ Truthy(ret.val.err) <=> (StderrText(procs[1]) # <<>>)
       /\ LET other == _run_p4_command(CmdOpened,
                                    [procs[1] EXCEPT !.rc = 1 - procs[1].rc])
          IN other.k = "ok" /\ other.val = ret.val

\* A process that exits with status 0 and writes to stderr: an error.
C6_Witness ==
    /\ RunDone
    /\ ret.k = "ok"
    /\ procs[1].rc = 0
    /\ StderrText(procs[1]) # <<>>
    /\ Truthy(ret.val.err)

(***************************************************************************)
(* C7                                                                      *)
(***************************************************************************)
AbsentOrTrimmed(x) ==
    \/ x.t = "None"
    \/ x.t = "str" /\ x.v # <<>> /\ strip(x.v) = x.v

\* C7: in every result of the executor, output and error are each absent
\* (None) or a non-empty string without leading or trailing whitespace.
C7_AbsentOrTrimmed ==
    (RunDone /\ ret.k = "ok")
    => AbsentOrTrimmed(ret.val.result) /\ AbsentOrTrimmed(ret.val.err)

(***************************************************************************)
(* The helpers of the handlers.                                            *)
(***************************************************************************)
\* The events of what ran before, then the outcome of what ran next.
After(events, o) ==
    [exc |-> o.exc, k |-> o.k, log |-> events \o o.log, val |-> o.val]

CmdClientRoot == Literal("p4 -F %clientRoot% -z tag info")
CmdUserName == Literal("p4 -F %userName% -z tag info")
CmdLogout == Literal("p4 logout")
CmdUnsetPassword == Literal("p4 set P4PASSWD=")
CmdDiffAll == Literal("p4 diff -dU")
NotUnderRoot == Literal("File is not under the client root.")
AlreadyWritable == Literal("File is already writable.")

\* _is_file_writeable(file_path)
_is_file_writeable(file_path) ==
    IF file_path.t = "None" THEN FALSE
    ELSE IF file_mode = "missing" THEN TRUE
    ELSE file_mode = "rw"

\* if err or result == '': return None, else return result
InfoField(r) ==
    IF r.k # "ok" THEN r
    ELSE IF Truthy(r.val.err) \/ r.val.result = Str(<<>>) THEN Ok(None, r.log)
    ELSE Ok(r.val.result, r.log)

\* _get_user_from_client_spec()
_get_user_from_client_spec(p) == InfoField(_run_p4_command(CmdUserName, p))

\* _get_client_root_directory()
_get_client_root_directory(p) == InfoField(_run_p4_command(CmdClientRoot, p))

\* file_path.startswith(client_root): str.startswith(None) and
\* str.startswith(b'') raise TypeError.
StartsWithRoot(file_path, client_root) ==
    IF client_root.k # "ok" THEN client_root
    ELSE IF file_path.t = "None" THEN Raise("AttributeError", client_root.log)
    ELSE IF client_root.val.t # "str" THEN Raise("TypeError", client_root.log)
    ELSE Ok(startswith(file_path.v, client_root.val.v), client_root.log)

\* _is_file_in_depot(file_path)
_is_file_in_depot(file_path, p) ==
    StartsWithRoot(file_path, _get_client_root_directory(p))

\* _show_message(edit, msg)
_show_message(msg) == <<EvShowMessage(msg)>>

\* Run the formatted command, or raise what formatting it raised.
RunFormatted(fmt, p) == IF fmt.k # "ok" THEN fmt ELSE _run_p4_command(fmt.val, p)

\* A call whose return value is dropped.
Discard(r) == IF r.k = "ok" THEN Ok(None, r.log) ELSE r

\* The exceptions of the model that `except ValueError` catches:
\* UnicodeDecodeError is a subclass of ValueError.
ValueErrors == {"ValueError", "UnicodeDecodeError"}

\* try: ... except ValueError: pass
ExceptValueError(r) ==
    IF r.k = "raise" /\ r.exc \in ValueErrors THEN Ok(None, r.log) ELSE r

\* if _is_file_in_depot(f): <then>  else: _warn_user("File is not under ...")
\* d is the outcome of the check.
IfInDepot(d, then) ==
    IF d.k # "ok" THEN d
    ELSE IF ~d.val THEN Ok(None, d.log \o _warn_user(NotUnderRoot))
    ELSE After(d.log, then)

(***************************************************************************)
(* The handlers.  p1 and p2 are the first and the second process the       *)
(* handler spawns, if it gets that far.                                    *)
(***************************************************************************)
\* lines 162-169, d being the outcome of the membership check: both checks
\* only print, and p4 edit runs whatever they found.
OpenChecked(file_path, d, p2) ==
    IF d.k # "ok" THEN d
    ELSE After(d.log \o (IF ~d.val THEN <<EvPrint(NotUnderRoot)>> ELSE <<>>),
               Discard(RunFormatted(Format("p4 edit \"{path}\"", "path",
                                           [x \in {"path"} |-> file_path.v]),
                                    p2)))

\* _p4_open(file_path)
_p4_open(file_path, p1, p2) ==
    IF file_path.t = "None" THEN Ok(None, <<>>)
    ELSE IF ~settings.p4_auto_open THEN Ok(None, <<>>)
    ELSE After(IF _is_file_writeable(file_path)
               THEN <<EvPrint(AlreadyWritable)>> ELSE <<>>,
               OpenChecked(file_path, _is_file_in_depot(file_path, p1), p2))

\* P4LoginCommand.run(): ask for the password.
P4LoginCommand_run == Ok(None, <<EvInputPanel>>)

\* lines 133-135, a being the outcome of 'p4 logout'.
LoginAfterLogout(a, password, p2) ==
    IF a.k # "ok" THEN a
    ELSE After(a.log,
               Discard(RunFormatted(Format("p4 set P4PASSWD={0}", "0",
                                           [x \in {"0"} |-> password]), p2)))

\* P4LoginCommand.on_done(password)
P4LoginCommand_on_done(password, p1, p2) ==
    ExceptValueError(
        LoginAfterLogout(_run_p4_command(CmdLogout, p1), password, p2))

\* P4LogoutCommand.run()
P4LogoutCommand_run(p1) ==
    ExceptValueError(Discard(_run_p4_command(CmdUnsetPassword, p1)))

\* lines 200-203, d being the outcome of the membership check.
AutoAddChecked(d, p2) ==
    IF d.k # "ok" THEN d
    ELSE IF ~d.val THEN Ok(None, d.log)
    ELSE After(d.log,
               Discard(RunFormatted(Format("p4 add \"{file}\"", "file",
                                           [x \in {"file"} |-> file_name.v]),
                                    p2)))

\* P4AutoAdd.on_post_save(view)
P4AutoAdd_on_post_save(p1, p2) ==
    IF ~settings.p4_auto_add THEN Ok(None, <<>>)
    ELSE AutoAddChecked(_is_file_in_depot(file_name, p1), p2)

\* P4AddCommand.run(edit)
P4AddCommand_run(p1, p2) ==
    IfInDepot(_is_file_in_depot(file_name, p1),
              Discard(RunFormatted(Format("p4 add \"{file}\"", "file",
                                          [x \in {"file"} |-> file_name.v]),
                                   p2)))

\* lines 225-227 and 239-241: the follow-up request when 'not err'.
FollowUp(r, request) ==
    IF r.k # "ok" THEN r
    ELSE Ok(None, r.log \o (IF ~Truthy(r.val.err)
                            THEN <<EvRunCommand(request)>> ELSE <<>>))

\* A plausible bug: delete without the membership check.
P4DeleteUnchecked(p1, p2) ==
    FollowUp(RunFormatted(Format("p4 delete \"{file}\"", "file",
                                 [x \in {"file"} |-> file_name.v]), p1),
             "close")

\* P4DeleteCommand.run(): 'p4 delete "{file}"'.format(filename) passes the
\* name by position, so the keyword "file" is missing.
P4DeleteCommand_run(p1, p2) ==
    IfInDepot(_is_file_in_depot(file_name, p1),
              FollowUp(RunFormatted(Format("p4 delete \"{file}\"", "file",
                                           [x \in {"0"} |-> file_name.v]), p2),
                       "close"))

\* line 240: 'if not error' names nothing: NameError once the command ran.
RevertFollowUp(r) == IF r.k # "ok" THEN r ELSE Raise("NameError", r.log)

\* P4RevertCommand.run_(edit_token, args): the same format call as delete.
P4RevertCommand_run_(p1, p2) ==
    IfInDepot(_is_file_in_depot(file_name, p1),
              RevertFollowUp(
                  RunFormatted(Format("p4 revert \"{file}\"", "file",
                                      [x \in {"0"} |-> file_name.v]), p2)))

\* if result: _show_message(edit, result)
ShowResult(r) ==
    IF r.k # "ok" THEN r
    ELSE Ok(None, r.log \o (IF Truthy(r.val.result)
                            THEN _show_message(r.val.result.v) ELSE <<>>))

\* P4DiffCommand.run(edit)
P4DiffCommand_run(p1, p2) ==
    IfInDepot(_is_file_in_depot(file_name, p1),
              ShowResult(RunFormatted(Format("p4 diff -dU \"{file}\"", "file",
                                             [x \in {"file"} |-> file_name.v]),
                                      p2)))

\* P4DiffAllCommand.run(edit)
P4DiffAllCommand_run(p1, p2) ==
    IfInDepot(_is_file_in_depot(file_name, p1),
              ShowResult(_run_p4_command(CmdDiffAll, p2)))

\* P4OpenedCommand.run(edit)
P4OpenedCommand_run(p1) == ShowResult(_run_p4_command(CmdOpened, p1))

(***************************************************************************)
(* The plugin: the environment is drawn in Init, every step is one handler *)
(* called by the editor and run to its end (the plugin is synchronous).    *)
(***************************************************************************)
FileAAa == Str(<<SLASH, "a", SLASH, "a", "a">>)     \* /a/aa

RootA == <<47, 97>>                    \* b"/a"
RootAAa == <<47, 97, 47, 97, 97>>      \* b"/a/aa"

\* What p4 may write: nothing, a blank, one of two client roots or a byte
\* that is not UTF-8 on stdout; nothing, a message or a byte that is not
\* UTF-8 on stderr.  The executor never reads the exit status (see C6), so
\* one value stands for it here.
HandlerProcesses ==
    [err : {<<>>, <<97>>, <<255>>},
     out : {<<>>, <<32>>, RootA, RootAAa, <<255>>},
     rc : {0}]

Passwords == {<<>>, <<"a">>}

Init ==
    /\ fs \in PluginFileSystems
    /\ cwd = DirRoot
    /\ file_name \in {None, FileAA, FileAAa, FileSlashSlashA}
    /\ ActiveFileIsAFile
    /\ settings \in Settings
    /\ file_mode \in {"missing", "rw", "ro"}
    /\ config_text = <<>>
    /\ pc = "idle"
    /\ path = <<>>
    /\ iters = 0
    /\ procs = <<>>
    /\ handler = ""
    /\ ret = NotRun
    /\ log = <<>>

NumPopen(events) == Len(SelectSeq(events, LAMBDA e : e.ev = "Popen"))

\* _show_message's win.new_file() (line 28) ran: the new, untitled view is
\* the active view from then on.
OpenedNewFile(events) ==
    \E i \in 1..Len(events) : events[i].ev = "show_message"

\* The handler `name` ran with outcome o; procs keeps the processes it
\* spawned.  The active view's file name is None once a new file was opened.
Handled(name, o, p1, p2) ==
    /\ pc = "idle"
    /\ handler' = name
    /\ ret' = o
    /\ log' = o.log
    /\ procs' = SubSeq(<<p1, p2>>, 1, NumPopen(o.log))
    /\ pc' = IF o.k = "hang" THEN "hung" ELSE "done"
    /\ file_name' = IF OpenedNewFile(o.log) THEN None ELSE file_name
    /\ UNCHANGED <<fs, cwd, settings, file_mode, config_text, path, iters>>

P4LoginRun ==
    \E p \in HandlerProcesses :
        Handled("P4LoginCommand.run", P4LoginCommand_run, p, p)

P4LoginOnDone ==
    \E password \in Passwords, p1, p2 \in HandlerProcesses :
        Handled("P4LoginCommand.on_done",
                P4LoginCommand_on_done(password, p1, p2), p1, p2)

P4LogoutRun ==
    \E p1 \in HandlerProcesses :
        Handled("P4LogoutCommand.run", P4LogoutCommand_run(p1), p1, p1)

\* P4AutoOpen.on_pre_save(view): nothing when the view is not dirty.
P4AutoOpenOnPreSave ==
    \E is_dirty \in BOOLEAN, p1, p2 \in HandlerProcesses :
        Handled("P4AutoOpen.on_pre_save",
                IF ~is_dirty THEN Ok(None, <<>>) ELSE _p4_open(file_name, p1, p2),
                p1, p2)

P4OpenRun ==
    \E p1, p2 \in HandlerProcesses :
        Handled("P4OpenCommand.run", _p4_open(file_name, p1, p2), p1, p2)

P4AutoAddOnPostSave ==
    \E p1, p2 \in HandlerProcesses :
        Handled("P4AutoAdd.on_post_save", P4AutoAdd_on_post_save(p1, p2), p1, p2)

P4AddRun ==
    \E p1, p2 \in HandlerProcesses :
        Handled("P4AddCommand.run", P4AddCommand_run(p1, p2), p1, p2)

P4DeleteRun ==
    \E p1, p2 \in HandlerProcesses :
        Handled("P4DeleteCommand.run", P4DeleteCommand_run(p1, p2), p1, p2)

P4RevertRun ==
    \E p1, p2 \in HandlerProcesses :
        Handled("P4RevertCommand.run_", P4RevertCommand_run_(p1, p2), p1, p2)

P4DiffRun ==
    \E p1, p2 \in HandlerProcesses :
        Handled("P4DiffCommand.run", P4DiffCommand_run(p1, p2), p1, p2)

P4DiffAllRun ==
    \E p1, p2 \in HandlerProcesses :
        Handled("P4DiffAllCommand.run", P4DiffAllCommand_run(p1, p2), p1, p2)

P4OpenedRun ==
    \E p1 \in HandlerProcesses :
        Handled("P4OpenedCommand.run", P4OpenedCommand_run(p1), p1, p1)

\* The handler returned (or raised into the editor, which logs and goes on):
\* the editor is ready to call the next one.  No handler keeps state.
EditorGoesOn ==
    /\ pc = "done"
    /\ handler \notin {"_read_p4_config_values", "_get_p4_config",
                       "_run_p4_command"}
    /\ pc' = "idle"
    /\ handler' = ""
    /\ ret' = NotRun
    /\ log' = <<>>
    /\ procs' = <<>>
    /\ UNCHANGED <<fs, cwd, file_name, settings, file_mode, config_text, path,
                   iters>>

Next ==
    \/ EditorGoesOn
    \/ P4LoginRun
    \/ P4LoginOnDone
    \/ P4LogoutRun
    \/ P4AutoOpenOnPreSave
    \/ P4OpenRun
    \/ P4AutoAddOnPostSave
    \/ P4AddRun
    \/ P4DeleteRun
    \/ P4RevertRun
    \/ P4DiffRun
    \/ P4DiffAllRun
    \/ P4OpenedRun

Spec == Init /\ [][Next]_vars

(***************************************************************************)
(* What a finished handler did, read from its log and its processes.       *)
(***************************************************************************)
GuardedHandlers ==
    {"P4AddCommand.run", "P4DeleteCommand.run", "P4RevertCommand.run_",
     "P4DiffCommand.run", "P4DiffAllCommand.run"}

\* The format string of the handler's own p4 command.
OwnCommand(h) ==
    CASE h = "P4AddCommand.run" -> "p4 add \"{file}\""
      [] h = "P4DeleteCommand.run" -> "p4 delete \"{file}\""
      [] h = "P4RevertCommand.run_" -> "p4 revert \"{file}\""
      [] h = "P4DiffCommand.run" -> "p4 diff -dU \"{file}\""
      [] h = "P4DiffAllCommand.run" -> "p4 diff -dU"
      [] h = "P4OpenCommand.run" -> "p4 edit \"{path}\""

\* The outcome of the membership check the handler made with its first
\* process.  It is read on the file the handler ran on: a handler that went
\* on to _show_message (and so left an untitled view active) had found the
\* file under the client root, and is in none of the cases below.
CheckOutcome == _is_file_in_depot(file_name, procs[1])

CheckSaysOutside ==
    Len(procs) >= 1 /\ CheckOutcome.k = "ok" /\ ~CheckOutcome.val

CheckSaysInside ==
    Len(procs) >= 1 /\ CheckOutcome.k = "ok" /\ CheckOutcome.val

Spawned(tmpl) ==
    \E i \in 1..Len(log) : log[i].ev = "Popen" /\ log[i].cmd.tmpl = tmpl

\* message went through _warn_user.
Warned(message) ==
    \E i \in 1..Len(log) :
        /\ log[i].ev = "print"
        /\ log[i].pre = "P4 [warning]: "
        /\ log[i].msg = message

Requested(name) ==
    \E i \in 1..Len(log) : log[i].ev = "run_command" /\ log[i].name = name

(***************************************************************************)
(* C4                                                                      *)
(***************************************************************************)
\* C4: delete on a file that is not under the client root spawns no
\* subprocess at all during the action and ends by warning 'File is not
\* under the client root.'.
C4_DeleteSpawnsNothing ==
    (handler = "P4DeleteCommand.run" /\ pc = "done" /\ CheckSaysOutside)
    => /\ NumPopen(log) = 0
       /\ ret.k = "ok"
       /\ log[Len(log)] = EvPrintWarning(NotUnderRoot)

\* C4, amended: delete on a file the membership check finds not under the
\* client root spawns exactly one subprocess, the check's own client-root
\* query; it never spawns p4 delete, never asks to close the view, and ends
\* by warning 'File is not under the client root.'.
C4_DeleteSpawnsOnlyTheCheck ==
    (handler = "P4DeleteCommand.run" /\ pc = "done" /\ CheckSaysOutside)
    => /\ NumPopen(log) = 1
       /\ log[1].ev = "Popen"
       /\ log[1].cmd = CmdClientRoot
       /\ ~Spawned(OwnCommand(handler))
       /\ ~Requested("close")
       /\ ret.k = "ok"
       /\ log[Len(log)] = EvPrintWarning(NotUnderRoot)

\* Delete ran on /a/a with p4 reporting the root /a/aa: one query, a warning.
C4_Witness ==
    /\ handler = "P4DeleteCommand.run"
    /\ pc = "done"
    /\ CheckSaysOutside
    /\ file_name = FileAA
    /\ procs[1].out = RootAAa
    /\ Spawned(CmdClientRoot.tmpl)
    /\ Warned(NotUnderRoot)

(***************************************************************************)
(* C5                                                                      *)
(***************************************************************************)
OpenPreconditionFails ==
    /\ handler = "P4OpenCommand.run"
    /\ file_name.t = "str"
    /\ settings.p4_auto_open
    /\ _is_file_writeable(file_name) \/ CheckSaysOutside

\* C5: when the precondition of open, add, delete, revert, diff or diff-all
\* fails (file not under the client root; for open, file already writable),
\* the failure goes through the warning channel and the action's own p4
\* command is not spawned.
C5_FailedPreconditionBlocks ==
    pc = "done" =>
    /\ (handler \in GuardedHandlers /\ CheckSaysOutside)
       => (Warned(NotUnderRoot) /\ ~Spawned(OwnCommand(handler)))
    /\ OpenPreconditionFails
       => /\ Warned(NotUnderRoot) \/ Warned(AlreadyWritable)
          /\ ~Spawned(OwnCommand(handler))

\* The part of C5 that is about the handlers other than open.
C5_GuardedHandlersBlock ==
    (pc = "done" /\ handler \in GuardedHandlers /\ CheckSaysOutside)
    => (Warned(NotUnderRoot) /\ ~Spawned(OwnCommand(handler)))

(***************************************************************************)
(* C8                                                                      *)
(***************************************************************************)
\* The client-root query ran and failed (stderr) or printed nothing.
InfoFailedOrEmpty ==
    /\ Len(procs) >= 1
    /\ LET r == _run_p4_command(CmdClientRoot, procs[1]) IN
       r.k = "ok" /\ (Truthy(r.val.err) \/ ~Truthy(r.val.result))

\* C8: when the client-root query fails or returns nothing, the membership
\* check yields false without raising, and the handler takes its 'not under
\* the client root' branch.
C8_FailedQueryMeansOutside ==
    (pc = "done" /\ handler \in GuardedHandlers /\ InfoFailedOrEmpty)
    => /\ CheckOutcome.k = "ok"
       /\ ~CheckOutcome.val
       /\ ret.k = "ok"
       /\ Warned(NotUnderRoot)

(***************************************************************************)
(* C9                                                                      *)
(***************************************************************************)
FollowUpOf(h) == IF h = "P4DeleteCommand.run" THEN "close" ELSE "revert"

\* C9: delete and revert on a file under the client root run their p4
\* command and then issue the follow-up request (close, revert) exactly when
\* the command returned no error.
C9_FollowUpIffNoError ==
    (pc = "done" /\ handler \in {"P4DeleteCommand.run", "P4RevertCommand.run_"}
       /\ CheckSaysInside)
    => /\ Len(procs) = 2
       /\ \E i \in 1..Len(log) :
             /\ log[i].ev = "Popen"
             /\ log[i].cmd = Formatted(OwnCommand(handler), file_name.v)
             /\ LET r == _run_p4_command(log[i].cmd, procs[2]) IN
                /\ r.k = "ok"
                /\ ~Truthy(r.val.err)
                   <=> \E j \in (i + 1)..Len(log) :
                          log[j] = EvRunCommand(FollowUpOf(handler))

====
